---- MODULE Spec2Model ----
(***************************************************************************)
(* Model of logdoc-go-appender's two slog handlers:                        *)
(*   - the option-based handler (package slogld, Option.NewLogdocHandler), *)
(*     prefixed Opt below;                                                 *)
(*   - the wrapping handler (slog/slog_handler.go, NewLogdocHandler),      *)
(*     prefixed Wrap below.                                                *)
(* A behaviour builds one root handler of either variant, derives          *)
(* handlers from it, and runs Handle / Enabled calls from concurrent       *)
(* callers; every dispatched send is its own goroutine writing one frame   *)
(* to the handler's connection.                                            *)
(***************************************************************************)
EXTENDS Integers, Sequences, FiniteSets, TLC

----------------------------------------------------------------------------
(* Bounds of the model *)


(* Handlers constructed in one behaviour, root included *)
MaxHandlers == 3
(* Handle calls in one behaviour of the sequential specification *)
MaxCalls == 1
(* Concurrent callers, handlers and Handle calls of the concurrent one *)
NumCallers == 2
ConcHandlers == 2
ConcCalls == 2
(* Bytes a short write moves to the wire *)
ShortWrite == 6
(* Handlers constructed in one behaviour of the derivation specification *)
DeriveHandlers == 6

(* log/slog levels *)
LevelDebug == -4
LevelInfo == 0
LevelWarn == 4
LevelError == 8

Levels == {LevelDebug, LevelInfo, LevelInfo + 2, LevelWarn, LevelError}

Callers == 1..NumCallers

----------------------------------------------------------------------------
(* Attributes: slog.Attr with the kind of its value.  sub holds the        *)
(* members of a group value and is empty for every other kind.             *)

StrAttr(k, v) == [key |-> k, kind |-> "string", val |-> v, sub |-> <<>>]
IntAttr(k, v) == [key |-> k, kind |-> "int", val |-> v, sub |-> <<>>]
BoolAttr(k, v) == [key |-> k, kind |-> "bool", val |-> v, sub |-> <<>>]
ErrAttr(k, m) == [key |-> k, kind |-> "error", val |-> m, sub |-> <<>>]
GroupAttr(k, members) == [key |-> k, kind |-> "group", val |-> "", sub |-> members]

(* Batches a caller passes to WithAttrs *)
AttrBatches == { <<StrAttr("a", "1")>>, <<StrAttr("b", "2")>>, <<IntAttr("n", "7")>> }

GroupNames == {"g"}

(* Attributes the registered context extractors yield for a call *)
CtxChoices == { <<>>, <<StrAttr("rid", "r1")>> }

(* Records handed to Handle: level, message text, own attributes *)
Rec(l, m, as) == [level |-> l, msg |-> m, attrs |-> as]

Records ==
    { Rec(l, "text", <<>>) : l \in Levels }
    \cup { Rec(LevelError, "text", <<ErrAttr("err", "boom")>>),
           Rec(LevelError, "text", <<ErrAttr("err", "boom"), ErrAttr("error", "bang")>>),
           Rec(LevelError, "text", <<StrAttr("err", "oops")>>),
           Rec(LevelInfo, "text", <<ErrAttr("err", "boom")>>),
           Rec(LevelInfo, "text",
               <<StrAttr("u", "x"), IntAttr("n", "7"), BoolAttr("ok", "true")>>) }

(* Instants at which a send reads the clock *)
Instants == { [yy |-> "26", mo |-> "11", dd |-> "05", hms |-> "120000", ms |-> "000"] }

(* The clock not read yet *)
NoInstant == [yy |-> "", mo |-> "", dd |-> "", hms |-> "", ms |-> ""]

----------------------------------------------------------------------------
(* Pure helpers *)

(* slog.Level.String for the levels of the model *)
LevelString(l) ==
    CASE l = LevelDebug -> "DEBUG"
      [] l = LevelInfo -> "INFO"
      [] l = LevelInfo + 2 -> "INFO+2"
      [] l = LevelWarn -> "WARN"
      [] l = LevelError -> "ERROR"

(* sendLogDocEvent's level normalisation *)
NormLevel(l) == IF LevelString(l) = "warning" THEN "warn" ELSE LevelString(l)

(* slog-common uniqByLast: one attribute per key, at the position of the   *)
(* key's first occurrence, with the value of its last occurrence           *)
RECURSIVE UniqFrom(_, _)
UniqFrom(acc, rest) ==
    IF rest = <<>> THEN acc
    ELSE LET a == Head(rest)
             hit == { i \in 1..Len(acc) : acc[i].key = a.key }
         IN IF hit = {}
            THEN UniqFrom(Append(acc, a), Tail(rest))
            ELSE UniqFrom([acc EXCEPT ![CHOOSE i \in hit : TRUE] = a], Tail(rest))

UniqAttrs(attrs) == UniqFrom(<<>>, attrs)

(* slog-common AppendAttrsToGroup: new attributes join the innermost open  *)
(* group; with no open group they are appended at top level                *)
RECURSIVE AppendAttrsToGroup(_, _, _)
AppendAttrsToGroup(groups, actualAttrs, newAttrs) ==
    IF groups = <<>> THEN UniqAttrs(actualAttrs \o newAttrs)
    ELSE LET hit == { i \in 1..Len(actualAttrs) :
                        /\ actualAttrs[i].key = groups[1]
                        /\ actualAttrs[i].kind = "group" }
         IN IF hit # {}
            THEN LET i == CHOOSE j \in hit : \A k \in hit : j <= k
                 IN [actualAttrs EXCEPT ![i] =
                        GroupAttr(groups[1],
                            AppendAttrsToGroup(Tail(groups), actualAttrs[i].sub, newAttrs))]
            ELSE UniqAttrs(Append(actualAttrs,
                    GroupAttr(groups[1],
                        AppendAttrsToGroup(Tail(groups), <<>>, newAttrs))))

(* Wire tokens: a header byte, a key=value line, or a bare newline.  A     *)
(* value is the sequence of the text pieces concatenated into it.          *)
ByteTok(b) == [t |-> "byte", k |-> b, v |-> <<>>]
LineTok(key, value) == [t |-> "line", k |-> key, v |-> value]
NewlineTok == [t |-> "nl", k |-> "", v |-> <<>>]

header == <<ByteTok("06"), ByteTok("03")>>

(* common.WritePair: appends key=value and a newline *)
WritePair(key, value, result) == Append(result, LineTok(key, value))

(* common.ProcessCustomFields of the wrapping handler's message *)
ProcessCustomFields(msg, result) == result

(* Variant of processCustomFields: every attribute gets a line, whatever    *)
(* the kind of its value                                                   *)
RECURSIVE processCustomFieldsAll(_, _)
processCustomFieldsAll(attrs, result) ==
    IF attrs = <<>> THEN result
    ELSE processCustomFieldsAll(Tail(attrs),
            Append(result, LineTok(Head(attrs).key, <<Head(attrs).val>>)))

(* processCustomFields of the option-based handler: one line per attribute *)
(* of the record whose value is a string                                   *)
RECURSIVE processCustomFields(_, _)
processCustomFields(attrs, result) ==
    IF attrs = <<>> THEN result
    ELSE LET a == Head(attrs)
         IN processCustomFields(Tail(attrs),
                IF a.kind = "string"
                THEN Append(result, LineTok(a.key, <<a.val>>))
                ELSE result)

(* time.Format with layout 060201150405.000: 06 is the year, 02 the day,   *)
(* 01 the month                                                            *)
FormatTime(t) == <<t.yy, t.dd, t.mo, t.hms, ".", t.ms>>

----------------------------------------------------------------------------
(* State *)

VARIABLES
    handlers,   \* every handler value constructed so far, in construction order
    conns,      \* every connection opened so far: lock holder, bytes on the wire
    dials,      \* every net.Dial attempted so far
    calls,      \* per caller: its current Handle / Enabled call
    sends,      \* every send dispatched so far (one goroutine each)
    connErrs,   \* connect failures reported to the fallback logger
    writeErrs,  \* sends whose Write failure was reported to the fallback logger
    ncalls,     \* number of Handle calls started
    panicked    \* the constructor panicked

vars == <<handlers, conns, dials, calls, sends, connErrs, writeErrs, ncalls, panicked>>

NoRec == Rec(LevelInfo, "", <<>>)

NoCall == [pc |-> "idle", h |-> 0, rec |-> NoRec, lvl |-> LevelInfo, en |-> FALSE,
           ds |-> 0, dsRec |-> NoRec, dsRes |-> "nil", ret |-> "nil", no |-> 0,
           fc |-> <<>>]

Init ==
    /\ handlers = <<>>
    /\ conns = <<>>
    /\ dials = <<>>
    /\ calls = [c \in Callers |-> NoCall]
    /\ sends = <<>>
    /\ connErrs = 0
    /\ writeErrs = {}
    /\ ncalls = 0
    /\ panicked = FALSE

NewConn(proto) == [proto |-> proto, lock |-> 0, wire |-> <<>>, broken |-> FALSE]

Live(h) == h \in 1..Len(handlers) /\ ~handlers[h].isNil

(* The process runs, and no Enabled call is in progress: Enabled reads     *)
(* immutable configuration only, so it is taken as one uninterrupted step  *)
Ready == ~panicked /\ \A c \in Callers : calls[c].pc # "enabled"

(* Handlers are derived, and asked whether they are enabled, before the    *)
(* first record is logged: neither reads or writes what a Handle call or a *)
(* send reads or writes                                                    *)
Setup == ncalls = 0

----------------------------------------------------------------------------
(* Option-based handler: construction and derivation *)

(* Level as configured in the Option: unset, or a level *)
OptLevelChoices ==
    { [set |-> FALSE, lv |-> LevelDebug], [set |-> TRUE, lv |-> LevelInfo] }

(* Option.NewLogdocHandler's defaulting of Level *)
OptDefaultLevel(cfg) == IF ~cfg.set THEN LevelDebug ELSE cfg.lv

(* Option.NewLogdocHandler: panics on a missing connection, otherwise      *)
(* returns a handler with empty attributes and groups.  The caller dialled *)
(* the connection it passes in the Option.                                 *)
(* attrs and groups are Go slices: the field holds what the slice shows,   *)
(* aarr / garr name its backing array (0: none), acap / gcap its capacity, *)
(* and spare what has been written to the attribute array past the slice's *)
(* length.  Slices of one array show each other's writes.                  *)
OptNewLogdocHandler(cfg, haveConn) ==
    /\ Ready
    /\ handlers = <<>>
    /\ IF ~haveConn
       THEN /\ panicked' = TRUE
            /\ UNCHANGED <<handlers, conns, dials>>
       ELSE /\ conns' = Append(conns, NewConn("tcp"))
            /\ dials' = Append(dials, [proto |-> "tcp", ok |-> TRUE, by |-> 0])
            /\ handlers' = Append(handlers,
                   [variant |-> "opt", isNil |-> FALSE, conn |-> Len(conns) + 1,
                    parent |-> 0, attrs |-> <<>>, groups |-> <<>>,
                    level |-> OptDefaultLevel(cfg), cfg |-> cfg,
                    levels |-> {}, proto |-> "tcp", dsMin |-> LevelDebug,
                    path |-> <<>>, held |-> TRUE,
                    garr |-> 0, gcap |-> 0, aarr |-> 0, acap |-> 0, spare |-> <<>>])
            /\ UNCHANGED panicked
    /\ UNCHANGED <<calls, sends, connErrs, writeErrs, ncalls>>

(* Variant of OptDerivedAttrs: the parent's attributes are left behind *)
OptDerivedAttrsOnlyNew(h, attrs) == AppendAttrsToGroup(h.groups, <<>>, attrs)

(* The attributes WithAttrs gives the derived handler *)
OptDerivedAttrs(h, attrs) == AppendAttrsToGroup(h.groups, h.attrs, attrs)

(* The capacity of the slice AppendAttrsToGroup returns: UniqAttrs makes   *)
(* its result with room for every attribute it is given, repeated keys     *)
(* included; the branch that replaces a group in place returns a slice as  *)
(* long as its content                                                     *)
DerivedAttrsCap(h, attrs) ==
    IF h.groups = <<>> THEN Len(h.attrs) + Len(attrs)
    ELSE IF \E i \in 1..Len(h.attrs) :
                h.attrs[i].key = h.groups[1] /\ h.attrs[i].kind = "group"
         THEN Len(h.attrs)
         ELSE Len(h.attrs) + 1

(* LogdocHandler.WithAttrs: same option (hence same connection), extended  *)
(* attributes in a slice of their own, same groups.  path records every    *)
(* attribute given on the derivation path and whether a group was open     *)
(* when it was given.                                                      *)
OptWithAttrs(p, attrs) ==
    /\ Ready
    /\ Live(p) /\ handlers[p].variant = "opt"
    /\ handlers' = Append(handlers,
           [handlers[p] EXCEPT
               !.parent = p,
               !.attrs = OptDerivedAttrs(handlers[p], attrs),
               !.aarr = Len(handlers) + 1,
               !.acap = DerivedAttrsCap(handlers[p], attrs),
               !.spare = <<>>,
               !.path = @ \o [i \in 1..Len(attrs) |->
                                 [a |-> attrs[i], open |-> handlers[p].groups # <<>>]]])
    /\ UNCHANGED <<conns, dials, calls, sends, connErrs, writeErrs, ncalls, panicked>>

(* The capacity append gives a full slice of strings that must hold newLen *)
(* elements (runtime growslice below 256 elements; for the lengths of the  *)
(* model the allocator's size classes round nothing up)                    *)
GrowCap(oldCap, newLen) == IF newLen > 2 * oldCap THEN newLen ELSE 2 * oldCap

(* LogdocHandler.WithGroup: same option, same attribute slice, and         *)
(* append(h.groups, name) as groups: with room left in h.groups' backing   *)
(* array the name is written there, at the place after h.groups' last,     *)
(* where every longer slice of that array shows it; with no room the       *)
(* groups are copied to a new array.                                       *)
OptWithGroup(p, name) ==
    /\ Ready
    /\ Live(p) /\ handlers[p].variant = "opt"
    /\ LET h == handlers[p]
           n == Len(h.groups)
           fits == n < h.gcap
           written == [i \in 1..Len(handlers) |->
                          IF /\ handlers[i].variant = "opt"
                             /\ handlers[i].garr = h.garr
                             /\ Len(handlers[i].groups) > n
                          THEN [handlers[i] EXCEPT !.groups[n + 1] = name]
                          ELSE handlers[i]]
       IN handlers' = Append(IF fits THEN written ELSE handlers,
              [h EXCEPT !.parent = p,
                        !.groups = Append(@, name),
                        !.garr = IF fits THEN @ ELSE Len(handlers) + 1,
                        !.gcap = IF fits THEN @ ELSE GrowCap(@, n + 1)])
    /\ UNCHANGED <<conns, dials, calls, sends, connErrs, writeErrs, ncalls, panicked>>

(* Variant of OptEnabled: the minimum level itself is not enabled *)
OptEnabledStrict(h, level) == level > h.level

(* LogdocHandler.Enabled of the option-based handler *)
OptEnabled(h, level) == level >= h.level

----------------------------------------------------------------------------
(* Wrapping handler: construction and derivation *)

(* Arguments of NewLogdocHandler: protocol, level allow-list, and the      *)
(* minimum level of the downstream handler it wraps                        *)
WrapConfigs ==
    { [proto |-> "tcp", dsMin |-> LevelDebug,
       levels |-> {LevelDebug, LevelInfo, LevelWarn, LevelError}],
      [proto |-> "udp", dsMin |-> LevelInfo, levels |-> {LevelInfo + 2, LevelError}],
      [proto |-> "sctp", dsMin |-> LevelInfo, levels |-> {LevelInfo, LevelError}] }

(* Variant of networkWriter: an unknown protocol is dialled as tcp *)
networkWriterDefaultTcp(proto, dialOk) == [dialed |-> TRUE, ok |-> dialOk]

(* networkWriter: dials for tcp and udp only; dialOk is net.Dial's outcome *)
networkWriter(proto, dialOk) ==
    CASE proto = "tcp" -> [dialed |-> TRUE, ok |-> dialOk]
      [] proto = "udp" -> [dialed |-> TRUE, ok |-> dialOk]
      [] OTHER -> [dialed |-> FALSE, ok |-> FALSE]

(* NewLogdocHandler: connects, and returns nil when that fails.  held says  *)
(* whether the value the caller gets compares unequal to nil: the          *)
(* constructor returns a *LogdocHandler, which is nil when the connect     *)
(* failed; WithAttrs and WithGroup return that pointer as a slog.Handler,  *)
(* an interface value that holds a type and so is never nil.               *)
WrapNewLogdocHandler(parent, dsMin, levels, proto, dialOk) ==
    LET nw == networkWriter(proto, dialOk)
    IN /\ dials' = IF nw.dialed
                   THEN Append(dials, [proto |-> proto, ok |-> nw.ok, by |-> parent])
                   ELSE dials
       /\ conns' = IF nw.ok THEN Append(conns, NewConn(proto)) ELSE conns
       /\ connErrs' = IF nw.ok THEN connErrs ELSE connErrs + 1
       /\ handlers' = Append(handlers,
              [variant |-> "wrap", isNil |-> ~nw.ok,
               conn |-> IF nw.ok THEN Len(conns) + 1 ELSE 0,
               parent |-> parent, attrs |-> <<>>, groups |-> <<>>,
               level |-> LevelDebug, cfg |-> [set |-> FALSE, lv |-> LevelDebug],
               levels |-> levels, proto |-> proto, dsMin |-> dsMin,
               path |-> <<>>, held |-> (parent # 0 \/ nw.ok),
               garr |-> 0, gcap |-> 0, aarr |-> 0, acap |-> 0, spare |-> <<>>])

(* The root handler is constructed *)
WrapNew(w, dialOk) ==
    /\ Ready
    /\ handlers = <<>>
    /\ WrapNewLogdocHandler(0, w.dsMin, w.levels, w.proto, dialOk)
    /\ UNCHANGED <<calls, sends, writeErrs, ncalls, panicked>>

(* LogdocHandler.WithAttrs: a new handler around the downstream handler's  *)
(* WithAttrs, built by NewLogdocHandler                                    *)
WrapWithAttrs(p, attrs, dialOk) ==
    /\ Ready
    /\ Live(p) /\ handlers[p].variant = "wrap"
    /\ Len(handlers) < MaxHandlers
    /\ WrapNewLogdocHandler(p, handlers[p].dsMin, handlers[p].levels,
                            handlers[p].proto, dialOk)
    /\ UNCHANGED <<calls, sends, writeErrs, ncalls, panicked>>

(* LogdocHandler.WithGroup: likewise around the downstream's WithGroup *)
WrapWithGroup(p, name, dialOk) ==
    /\ Ready
    /\ Live(p) /\ handlers[p].variant = "wrap"
    /\ Len(handlers) < MaxHandlers
    /\ WrapNewLogdocHandler(p, handlers[p].dsMin, handlers[p].levels,
                            handlers[p].proto, dialOk)
    /\ UNCHANGED <<calls, sends, writeErrs, ncalls, panicked>>

(* Enabled of the wrapped downstream handler *)
DownstreamEnabled(h, level) == level >= h.dsMin

(* LogdocHandler.Enabled of the wrapping handler: the downstream's answer  *)
WrapEnabled(h, level) == DownstreamEnabled(h, level)

----------------------------------------------------------------------------
(* Handle and Enabled calls *)

AtRest(c) == calls[c].pc \in {"idle", "returned"}

NilEntry == [isNil |-> TRUE, msg |-> "", level |-> LevelInfo, attrs |-> <<>>]

Entry(m, l, as) == [isNil |-> FALSE, msg |-> m, level |-> l, attrs |-> as]

(* The number of the Handle call caller c is in, or starts with this step *)
CallNo(c) == IF calls[c].pc = "appended" THEN calls[c].no ELSE ncalls + 1

(* Variant of Spawn: a plain call, which the caller runs to its end *)
SpawnInline(c, h, st, lvl, entry, err, rec) ==
    [h |-> h, conn |-> handlers[h].conn, caller |-> c, no |-> CallNo(c),
     detached |-> FALSE, st |-> st, lvl |-> lvl, entry |-> entry, err |-> err,
     rec |-> rec, frame |-> <<>>, bufs |-> <<>>, off |-> 0, t |-> NoInstant,
     tries |-> 0]

(* The go statement: the send runs as a goroutine of its own, which the    *)
(* spawning call does not wait for.  st is "outer" for the option-based    *)
(* handler's anonymous goroutine, "spawned" for a sendLogdoc goroutine.    *)
Spawn(c, h, st, lvl, entry, err, rec) ==
    [h |-> h, conn |-> handlers[h].conn, caller |-> c, no |-> CallNo(c),
     detached |-> TRUE, st |-> st, lvl |-> lvl, entry |-> entry, err |-> err,
     rec |-> rec, frame |-> <<>>, bufs |-> <<>>, off |-> 0, t |-> NoInstant,
     tries |-> 0]

(* The unfinished sends of caller c's current call that the call itself    *)
(* runs rather than a goroutine                                            *)
Awaited(c) ==
    { s \in 1..Len(sends) :
        /\ sends[s].caller = c
        /\ sends[s].no = calls[c].no
        /\ ~sends[s].detached
        /\ sends[s].st \notin {"done", "failed"} }

OptEnabledCall(c, h, level) ==
    /\ Ready
    /\ AtRest(c)
    /\ Live(h) /\ handlers[h].variant = "opt"
    /\ calls' = [calls EXCEPT ![c] =
                    [NoCall EXCEPT !.pc = "enabled", !.h = h, !.lvl = level,
                                   !.en = OptEnabled(handlers[h], level)]]
    /\ UNCHANGED <<handlers, conns, dials, sends, connErrs, writeErrs, ncalls, panicked>>

WrapEnabledCall(c, h, level) ==
    /\ Ready
    /\ AtRest(c)
    /\ Live(h) /\ handlers[h].variant = "wrap"
    /\ calls' = [calls EXCEPT ![c] =
                    [NoCall EXCEPT !.pc = "enabled", !.h = h, !.lvl = level,
                                   !.en = WrapEnabled(handlers[h], level)]]
    /\ UNCHANGED <<handlers, conns, dials, sends, connErrs, writeErrs, ncalls, panicked>>

(* Enabled returns its answer to the caller *)
EnabledReturn(c) ==
    /\ calls[c].pc = "enabled"
    /\ calls' = [calls EXCEPT ![c] = NoCall]
    /\ UNCHANGED <<handlers, conns, dials, sends, connErrs, writeErrs, ncalls, panicked>>

(* DefaultConverter: the record to send, carrying the logger's attributes  *)
(* followed by the record's own                                            *)
DefaultConverter(loggerAttr, groups, rec) ==
    Entry(rec.msg, rec.level, loggerAttr \o rec.attrs)

(* The sends the option-based Handle dispatches: always one.  appended is  *)
(* what the slice append(h.attrs, fromContext...) shows past h.attrs when   *)
(* the converter reads it                                                  *)
OptDispatch(c, h, rec, appended) ==
    LET message == DefaultConverter(handlers[h].attrs \o appended,
                                    handlers[h].groups, rec)
    IN <<Spawn(c, h, "outer", "", message, "", rec)>>

(* Whether append(h.attrs, fromContext...) writes into h.attrs' own        *)
(* backing array: it has something to append and the array has the room    *)
AppendsInPlace(h, fromContext) ==
    /\ fromContext # <<>>
    /\ Len(handlers[h].attrs) + Len(fromContext) <= handlers[h].acap

(* LogdocHandler.Handle of the option-based handler up to its return, or,  *)
(* when the append writes into the handler's own array, where other calls  *)
(* write too, up to that write: the converter's read is a later step       *)
OptHandle(c, h, rec, fromContext) ==
    /\ Ready
    /\ AtRest(c)
    /\ Live(h) /\ handlers[h].variant = "opt"
    /\ ncalls' = ncalls + 1
    /\ IF AppendsInPlace(h, fromContext)
       THEN /\ handlers' =
                  [i \in 1..Len(handlers) |->
                      IF handlers[i].variant = "opt" /\ handlers[i].aarr = handlers[h].aarr
                      THEN [handlers[i] EXCEPT
                               !.spare = fromContext
                                         \o SubSeq(@, Len(fromContext) + 1, Len(@))]
                      ELSE handlers[i]]
            /\ calls' = [calls EXCEPT ![c] =
                            [NoCall EXCEPT !.pc = "appended", !.h = h, !.rec = rec,
                                           !.no = ncalls + 1, !.fc = fromContext]]
            /\ UNCHANGED sends
       ELSE /\ sends' = sends \o OptDispatch(c, h, rec, fromContext)
            /\ calls' = [calls EXCEPT ![c] =
                            [NoCall EXCEPT !.pc = "dispatched", !.h = h, !.rec = rec,
                                           !.no = ncalls + 1, !.fc = fromContext]]
            /\ UNCHANGED handlers
    /\ UNCHANGED <<conns, dials, connErrs, writeErrs, panicked>>

(* The rest of Handle after an append in place: the converter reads the    *)
(* appended slice from the handler's array as it is now, and the send is   *)
(* dispatched                                                              *)
OptConvert(c) ==
    /\ Ready
    /\ calls[c].pc = "appended"
    /\ sends' = sends \o OptDispatch(c, calls[c].h, calls[c].rec,
                     SubSeq(handlers[calls[c].h].spare, 1, Len(calls[c].fc)))
    /\ calls' = [calls EXCEPT ![c].pc = "dispatched"]
    /\ UNCHANGED <<handlers, conns, dials, connErrs, writeErrs, ncalls, panicked>>

(* The anonymous goroutine of the option-based Handle: sendLogDocEvent     *)
(* normalises the level and starts the sendLogdoc goroutine                *)
OptSendLogDocEvent(s) ==
    /\ Ready
    /\ s \in 1..Len(sends)
    /\ sends[s].st = "outer"
    /\ sends' = [sends EXCEPT ![s].st = "spawned",
                              ![s].lvl = NormLevel(sends[s].entry.level)]
    /\ UNCHANGED <<handlers, conns, dials, calls, connErrs, writeErrs, ncalls, panicked>>

(* The error values of a record's attributes keyed err or error *)
RECURSIVE ErrorsOf(_)
ErrorsOf(attrs) ==
    IF attrs = <<>> THEN <<>>
    ELSE LET a == Head(attrs)
         IN (IF a.key \in {"err", "error"} /\ a.kind = "error" THEN <<a.val>> ELSE <<>>)
            \o ErrorsOf(Tail(attrs))

(* Variant of WrapForwards: the allow-list is not consulted *)
WrapForwardsAll(h, level) == TRUE

(* Whether the wrapping Handle forwards records of this level at all *)
WrapForwards(h, level) == level \in handlers[h].levels

(* The sends the wrapping Handle dispatches for a record *)
WrapDispatch(c, h, rec) ==
    IF ~WrapForwards(h, rec.level) THEN <<>>
    ELSE CASE rec.level = LevelError ->
                LET errs == ErrorsOf(rec.attrs)
                IN [i \in 1..Len(errs) |->
                       Spawn(c, h, "spawned", LevelString(LevelError), NilEntry, errs[i], rec)]
           [] rec.level \in {LevelDebug, LevelInfo, LevelWarn} ->
                <<Spawn(c, h, "spawned", NormLevel(rec.level),
                        Entry(rec.msg, rec.level, rec.attrs), "", rec)>>
           [] OTHER -> <<>>

(* LogdocHandler.Handle of the wrapping handler, up to the call of the     *)
(* downstream handler                                                      *)
WrapHandle(c, h, rec) ==
    /\ Ready
    /\ AtRest(c)
    /\ Live(h) /\ handlers[h].variant = "wrap"
    /\ sends' = sends \o WrapDispatch(c, h, rec)
    /\ ncalls' = ncalls + 1
    /\ calls' = [calls EXCEPT ![c] =
                    [NoCall EXCEPT !.pc = "dispatched", !.h = h, !.rec = rec,
                                   !.no = ncalls + 1]]
    /\ UNCHANGED <<handlers, conns, dials, connErrs, writeErrs, panicked>>

(* LogdocHandler.Handle of the wrapping handler called through a           *)
(* slog.Handler that holds a nil *LogdocHandler: reading s.levels          *)
(* dereferences the nil pointer and the goroutine panics                   *)
WrapHandleNil(c, h, rec) ==
    /\ Ready
    /\ AtRest(c)
    /\ h \in 1..Len(handlers)
    /\ handlers[h].variant = "wrap" /\ handlers[h].held /\ handlers[h].isNil
    /\ panicked' = TRUE
    /\ calls' = [calls EXCEPT ![c] = [NoCall EXCEPT !.pc = "panicked", !.h = h]]
    /\ UNCHANGED <<handlers, conns, dials, sends, connErrs, writeErrs, ncalls>>

DownstreamResults == {"nil", "dserr"}

(* s.Handler.Handle(ctx, record): the downstream handler runs and answers  *)
WrapDownstreamHandle(c, res) ==
    /\ Ready
    /\ calls[c].pc = "dispatched"
    /\ handlers[calls[c].h].variant = "wrap"
    /\ Awaited(c) = {}
    /\ calls' = [calls EXCEPT ![c].pc = "downstream", ![c].ds = @ + 1,
                              ![c].dsRec = calls[c].rec, ![c].dsRes = res]
    /\ UNCHANGED <<handlers, conns, dials, sends, connErrs, writeErrs, ncalls, panicked>>

(* Variant of HandleResult: a failed Write of the call's send is returned *)
HandleResultWriteErr(c) ==
    IF \E s \in 1..Len(sends) : sends[s].no = calls[c].no /\ sends[s].st = "failed"
    THEN "writeerr"
    ELSE IF handlers[calls[c].h].variant = "opt" THEN "nil" ELSE calls[c].dsRes

(* The value Handle returns *)
HandleResult(c) ==
    IF handlers[calls[c].h].variant = "opt" THEN "nil" ELSE calls[c].dsRes

(* Variant of HandleReturn: the wrapping Handle may return before it has   *)
(* called the downstream handler                                           *)
HandleReturnEarly(c) ==
    /\ Ready
    /\ calls[c].pc \in {"dispatched", "downstream"}
    /\ Awaited(c) = {}
    /\ calls' = [calls EXCEPT ![c] =
                    [NoCall EXCEPT !.pc = "returned", !.ret = calls[c].dsRes,
                                   !.ds = calls[c].ds, !.dsRes = calls[c].dsRes,
                                   !.no = calls[c].no]]
    /\ UNCHANGED <<handlers, conns, dials, sends, connErrs, writeErrs, ncalls, panicked>>

(* Handle returns to its caller; the call's locals are gone *)
HandleReturn(c) ==
    /\ Ready
    /\ \/ calls[c].pc = "dispatched" /\ handlers[calls[c].h].variant = "opt"
       \/ calls[c].pc = "downstream"
    /\ Awaited(c) = {}
    /\ calls' = [calls EXCEPT ![c] =
                    [NoCall EXCEPT !.pc = "returned", !.ret = HandleResult(c),
                                   !.ds = calls[c].ds, !.dsRes = calls[c].dsRes,
                                   !.no = calls[c].no]]
    /\ UNCHANGED <<handlers, conns, dials, sends, connErrs, writeErrs, ncalls, panicked>>

----------------------------------------------------------------------------
(* sendLogdoc: build the frame, write it to the connection *)

(* Ambient field values: application name, remote address, process id,     *)
(* function and line of the record's program counter                       *)
AppName == "app"
RemoteAddr == "addr"
Pid == "pid"
FuncLine == "func:line"

(* The frame the option-based sendLogdoc builds *)
OptFrame(level, entry, err, t) ==
    LET msg == IF ~entry.isNil THEN entry.msg ELSE err
        src == IF ~entry.isNil THEN FuncLine ELSE "TODO"
        r1 == WritePair("msg", <<msg>>, header)
        r2 == processCustomFields(entry.attrs, r1)
        r3 == WritePair("app", <<AppName>>, r2)
        r4 == WritePair("tsrc", FormatTime(t) \o <<"\n">>, r3)
        r5 == WritePair("lvl", <<level>>, r4)
        r6 == WritePair("ip", <<RemoteAddr>>, r5)
        r7 == WritePair("pid", <<Pid>>, r6)
        r8 == WritePair("src", <<src>>, r7)
    IN Append(r8, NewlineTok)

(* The frame the wrapping sendLogdoc builds *)
WrapFrame(level, entry, err, t) ==
    LET msg == IF ~entry.isNil THEN entry.msg ELSE err
        r1 == WritePair("msg", <<msg>>, header)
        r2 == ProcessCustomFields(msg, r1)
        r3 == WritePair("app", <<AppName>>, r2)
        r4 == WritePair("tsrc", FormatTime(t) \o <<"\n">>, r3)
        r5 == WritePair("lvl", <<level>>, r4)
        r6 == WritePair("ip", <<RemoteAddr>>, r5)
        r7 == WritePair("pid", <<Pid>>, r6)
        r8 == WritePair("src", <<"TODO">>, r7)
    IN Append(r8, NewlineTok)

(* Variant of WriteCalls: the header goes out in a Write call of its own *)
WriteCallsSplit(frame) == <<SubSeq(frame, 1, 2), SubSeq(frame, 3, Len(frame))>>

(* The buffers sendLogdoc hands to Conn.Write, one call each: the whole    *)
(* frame in a single call                                                  *)
WriteCalls(frame) == <<frame>>

(* sendLogdoc up to its call of Conn.Write *)
SendLogdoc(s, t) ==
    /\ Ready
    /\ s \in 1..Len(sends)
    /\ sends[s].st = "spawned"
    /\ LET x == sends[s]
           f == IF handlers[x.h].variant = "opt"
                THEN OptFrame(x.lvl, x.entry, x.err, t)
                ELSE WrapFrame(x.lvl, x.entry, x.err, t)
       IN sends' = [sends EXCEPT ![s].st = "built", ![s].frame = f, ![s].t = t,
                                 ![s].bufs = WriteCalls(f)]
    /\ UNCHANGED <<handlers, conns, dials, calls, connErrs, writeErrs, ncalls, panicked>>

(* Whether a Write call may enter the connection: net's connections take   *)
(* the descriptor's write lock for the length of one Write call            *)
WriteMayEnter(k) == conns[k].lock = 0

(* Variant of ConnWriteBegin: a send waits for the sends dispatched before *)
(* it on its connection to finish                                          *)
ConnWriteBeginInOrder(s) ==
    /\ Ready
    /\ s \in 1..Len(sends)
    /\ sends[s].st = "built"
    /\ WriteMayEnter(sends[s].conn)
    /\ \A r \in 1..(s - 1) :
          sends[r].conn = sends[s].conn => sends[r].st \in {"done", "failed"}
    /\ conns' = [conns EXCEPT ![sends[s].conn].lock = s]
    /\ sends' = [sends EXCEPT ![s].st = "writing", ![s].off = 0, ![s].tries = @ + 1]
    /\ UNCHANGED <<handlers, dials, calls, connErrs, writeErrs, ncalls, panicked>>

(* Conn.Write begins: the call takes the connection's write lock *)
ConnWriteBegin(s) ==
    /\ Ready
    /\ s \in 1..Len(sends)
    /\ sends[s].st = "built"
    /\ WriteMayEnter(sends[s].conn)
    /\ conns' = [conns EXCEPT ![sends[s].conn].lock = s]
    /\ sends' = [sends EXCEPT ![s].st = "writing", ![s].off = 0, ![s].tries = @ + 1]
    /\ UNCHANGED <<handlers, dials, calls, connErrs, writeErrs, ncalls, panicked>>

(* The state after the Write call of send s moved the next n bytes of its  *)
(* buffer to the wire; with the last byte the call returns, releasing the  *)
(* lock, and sendLogdoc goes on to its next Write call or ends             *)
MoveToWire(s, n) ==
    LET x == sends[s]
        buf == x.bufs[1]
        k == x.conn
        last == x.off + n = Len(buf)
    IN /\ conns' = [conns EXCEPT
              ![k].wire = @ \o [i \in 1..n |-> [s |-> s, tok |-> buf[x.off + i]]],
              ![k].lock = IF last /\ @ = s THEN 0 ELSE @]
       /\ sends' = [sends EXCEPT
              ![s].off = IF last THEN 0 ELSE x.off + n,
              ![s].bufs = IF last /\ Len(x.bufs) > 1 THEN Tail(x.bufs) ELSE x.bufs,
              ![s].st = IF ~last THEN "writing"
                        ELSE IF Len(x.bufs) > 1 THEN "built" ELSE "done"]

(* A short write: the kernel takes only part of what is left *)
ConnWriteShort(s) ==
    /\ Ready
    /\ s \in 1..Len(sends)
    /\ sends[s].st = "writing"
    /\ ~conns[sends[s].conn].broken
    /\ Len(sends[s].bufs[1]) - sends[s].off > ShortWrite
    /\ MoveToWire(s, ShortWrite)
    /\ UNCHANGED <<handlers, dials, calls, connErrs, writeErrs, ncalls, panicked>>

(* The kernel takes all that is left of the buffer *)
ConnWriteRest(s) ==
    /\ Ready
    /\ s \in 1..Len(sends)
    /\ sends[s].st = "writing"
    /\ ~conns[sends[s].conn].broken
    /\ MoveToWire(s, Len(sends[s].bufs[1]) - sends[s].off)
    /\ UNCHANGED <<handlers, dials, calls, connErrs, writeErrs, ncalls, panicked>>

(* Variant of ConnWriteFail: after reporting the error sendLogdoc tries the *)
(* Write again                                                             *)
ConnWriteFailRetry(s) ==
    /\ Ready
    /\ s \in 1..Len(sends)
    /\ sends[s].st = "writing"
    /\ conns[sends[s].conn].broken
    /\ conns' = [conns EXCEPT ![sends[s].conn].lock = IF @ = s THEN 0 ELSE @]
    /\ sends' = [sends EXCEPT ![s].st = "built"]
    /\ writeErrs' = writeErrs \cup {s}
    /\ UNCHANGED <<handlers, dials, calls, connErrs, ncalls, panicked>>

(* Conn.Write fails on a broken connection; sendLogdoc reports the error   *)
(* to the fallback logger and ends                                         *)
ConnWriteFail(s) ==
    /\ Ready
    /\ s \in 1..Len(sends)
    /\ sends[s].st = "writing"
    /\ conns[sends[s].conn].broken
    /\ conns' = [conns EXCEPT ![sends[s].conn].lock = IF @ = s THEN 0 ELSE @]
    /\ sends' = [sends EXCEPT ![s].st = "failed"]
    /\ writeErrs' = writeErrs \cup {s}
    /\ UNCHANGED <<handlers, dials, calls, connErrs, ncalls, panicked>>

(* The peer or the network breaks a connection *)
BreakConn(k) ==
    /\ Ready
    /\ k \in 1..Len(conns)
    /\ ~conns[k].broken
    /\ conns' = [conns EXCEPT ![k].broken = TRUE]
    /\ UNCHANGED <<handlers, dials, calls, sends, connErrs, writeErrs, ncalls, panicked>>

----------------------------------------------------------------------------
(* Specifications *)

HandlerIds == 1..MaxHandlers
SendIds == 1..(2 * (MaxCalls + ConcCalls))

(* The goroutines of the sends, and the network *)
SendSteps ==
    \/ \E s \in SendIds : OptSendLogDocEvent(s)
    \/ \E s \in SendIds, t \in Instants : SendLogdoc(s, t)
    \/ \E s \in SendIds : ConnWriteBegin(s)
    \/ \E s \in SendIds : ConnWriteShort(s)
    \/ \E s \in SendIds : ConnWriteRest(s)
    \/ \E s \in SendIds : ConnWriteFail(s)
    \/ \E k \in HandlerIds : BreakConn(k)

(* Sequential specification: one logging goroutine, every configuration,   *)
(* every derivation and every record of the model                          *)
Next ==
    \/ \E cfg \in OptLevelChoices, haveConn \in BOOLEAN : OptNewLogdocHandler(cfg, haveConn)
    \/ \E p \in HandlerIds, attrs \in AttrBatches :
          Setup /\ Len(handlers) < MaxHandlers /\ OptWithAttrs(p, attrs)
    \/ \E p \in HandlerIds, name \in GroupNames :
          Setup /\ Len(handlers) < MaxHandlers /\ OptWithGroup(p, name)
    \/ \E w \in WrapConfigs, ok \in BOOLEAN : WrapNew(w, ok)
    \/ \E p \in HandlerIds, attrs \in AttrBatches, ok \in BOOLEAN :
          Setup /\ WrapWithAttrs(p, attrs, ok)
    \/ \E p \in HandlerIds, name \in GroupNames, ok \in BOOLEAN :
          Setup /\ WrapWithGroup(p, name, ok)
    \/ \E h \in HandlerIds, l \in Levels : Setup /\ OptEnabledCall(1, h, l)
    \/ \E h \in HandlerIds, l \in Levels : Setup /\ WrapEnabledCall(1, h, l)
    \/ EnabledReturn(1)
    \/ \E h \in HandlerIds, rec \in Records, fc \in CtxChoices :
          ncalls < MaxCalls /\ OptHandle(1, h, rec, fc)
    \/ OptConvert(1)
    \/ \E h \in HandlerIds, rec \in Records : ncalls < MaxCalls /\ WrapHandle(1, h, rec)
    \/ \E h \in HandlerIds, rec \in Records : ncalls < MaxCalls /\ WrapHandleNil(1, h, rec)
    \/ \E res \in DownstreamResults : WrapDownstreamHandle(1, res)
    \/ HandleReturn(1)
    \/ SendSteps

Spec == Init /\ [][Next]_vars

(* Concurrent specification: several logging goroutines on a root handler  *)
(* and a handler derived from it, with a few records                       *)
ConcRecords ==
    { Rec(LevelInfo, "text", <<>>),
      Rec(LevelError, "text", <<ErrAttr("err", "boom")>>) }

ConcWrapConfig ==
    [proto |-> "tcp", dsMin |-> LevelDebug,
     levels |-> {LevelDebug, LevelInfo, LevelWarn, LevelError}]

ConcNext ==
    \/ OptNewLogdocHandler([set |-> FALSE, lv |-> LevelDebug], TRUE)
    \/ \E p \in HandlerIds :
          Setup /\ Len(handlers) < ConcHandlers /\ OptWithAttrs(p, <<StrAttr("a", "1")>>)
    \/ WrapNew(ConcWrapConfig, TRUE)
    \/ \E p \in HandlerIds, ok \in BOOLEAN :
          Setup /\ Len(handlers) < ConcHandlers /\ WrapWithAttrs(p, <<StrAttr("a", "1")>>, ok)
    \/ \E c \in Callers, h \in HandlerIds, rec \in ConcRecords :
          ncalls < ConcCalls /\ OptHandle(c, h, rec, <<>>)
    \/ \E c \in Callers, h \in HandlerIds, rec \in ConcRecords :
          ncalls < ConcCalls /\ WrapHandle(c, h, rec)
    \/ \E c \in Callers, res \in DownstreamResults : WrapDownstreamHandle(c, res)
    \/ \E c \in Callers : HandleReturn(c)
    \/ SendSteps

ConcSpec == Init /\ [][ConcNext]_vars

(* Concurrent specification in which every caller keeps running: a call    *)
(* that can return, or can call the downstream handler, eventually does.   *)
(* Nothing is assumed of the sends: a Write may block for ever.            *)
CallerStep(c) ==
    \/ HandleReturn(c)
    \/ \E res \in DownstreamResults : WrapDownstreamHandle(c, res)

LiveSpec == ConcSpec /\ \A c \in Callers : WF_vars(CallerStep(c))

(* Racing specification: concurrent Handle calls, with contexts that yield *)
(* different attributes, on an option-based root and a handler derived     *)
(* from it with a key given twice                                          *)
RaceCtxChoices == { <<StrAttr("rid", "r1")>>, <<StrAttr("rid", "r2")>> }

RaceBatch == <<StrAttr("a", "1"), StrAttr("a", "2")>>

RaceNext ==
    \/ OptNewLogdocHandler([set |-> FALSE, lv |-> LevelDebug], TRUE)
    \/ \E p \in HandlerIds :
          Setup /\ Len(handlers) < ConcHandlers /\ OptWithAttrs(p, RaceBatch)
    \/ \E c \in Callers, h \in HandlerIds, fc \in RaceCtxChoices :
          ncalls < ConcCalls /\ OptHandle(c, h, Rec(LevelInfo, "text", <<>>), fc)
    \/ \E c \in Callers : OptConvert(c)
    \/ \E c \in Callers : HandleReturn(c)
    \/ SendSteps

RaceSpec == Init /\ [][RaceNext]_vars

(* Derivation specification: an option-based root and chains of WithGroup  *)
(* and WithAttrs derivations from it, with group names that differ         *)
DeriveGroupNames == {"g", "k"}

DeriveNext ==
    \/ OptNewLogdocHandler([set |-> FALSE, lv |-> LevelDebug], TRUE)
    \/ \E p \in 1..DeriveHandlers, name \in DeriveGroupNames :
          Len(handlers) < DeriveHandlers /\ OptWithGroup(p, name)
    \/ \E p \in 1..DeriveHandlers :
          Len(handlers) < DeriveHandlers /\ OptWithAttrs(p, <<StrAttr("a", "1")>>)

DeriveSpec == Init /\ [][DeriveNext]_vars

----------------------------------------------------------------------------
(* Properties *)

Min(S) == CHOOSE x \in S : \A y \in S : x <= y
Max(S) == CHOOSE x \in S : \A y \in S : x >= y

(* The places of send s's bytes on its connection's wire *)
WirePlaces(s) ==
    { i \in 1..Len(conns[sends[s].conn].wire) : conns[sends[s].conn].wire[i].s = s }

(* The bytes of send s lie side by side on the wire, in the order of its   *)
(* frame, starting with the frame's first byte                             *)
Uninterleaved(s) ==
    LET w == conns[sends[s].conn].wire
        pl == WirePlaces(s)
    IN pl # {} =>
          /\ Max(pl) - Min(pl) + 1 = Cardinality(pl)
          /\ Cardinality(pl) <= Len(sends[s].frame)
          /\ \A i \in pl : w[i].tok = sends[s].frame[i - Min(pl) + 1]

(* The whole frame of send s is on the wire, header to final newline *)
Complete(s) ==
    LET w == conns[sends[s].conn].wire
        pl == WirePlaces(s)
    IN /\ Cardinality(pl) = Len(sends[s].frame)
       /\ pl # {}
       /\ w[Min(pl)].tok = ByteTok("06")
       /\ w[Min(pl) + 1].tok = ByteTok("03")
       /\ w[Max(pl)].tok = NewlineTok

(* C1: the frames of concurrent Handle calls on handlers sharing one       *)
(* connection are never interleaved on the wire, and every send that       *)
(* finished put one complete frame there; their order is free.             *)
C1_FramesNotInterleaved ==
    \A s \in 1..Len(sends) :
        sends[s].conn # 0 =>
            /\ Uninterleaved(s)
            /\ sends[s].st = "done" => Complete(s)

(* C1 witness: two callers' sends on one connection through two handlers,  *)
(* one frame fully written while the other is part-way through its Write.  *)
C1_Witness ==
    \E s1, s2 \in 1..Len(sends) :
        /\ sends[s1].conn = sends[s2].conn
        /\ sends[s1].h # sends[s2].h
        /\ sends[s1].caller # sends[s2].caller
        /\ sends[s1].st = "done"
        /\ sends[s2].st = "writing" /\ sends[s2].off > 0

(* C2: a derived handler uses the connection of the handler it was derived *)
(* from, and after any derivations exactly one connection has been dialled *)
(* for the root and everything derived from it.                            *)
C2_DerivationSharesConnection ==
    /\ \A h \in 1..Len(handlers) :
          handlers[h].parent # 0 =>
              /\ ~handlers[h].isNil
              /\ handlers[h].conn = handlers[handlers[h].parent].conn
    /\ Len(dials) <= 1
    /\ Len(conns) <= 1

(* The variant of the behaviour's root handler *)
RootVariant == handlers[1].variant

(* The sends dispatched by caller c's current or last Handle call *)
SendsOf(c) == { s \in 1..Len(sends) : sends[s].no = calls[c].no }

(* C3: every Handle call returns, whatever becomes of the network write:   *)
(* the option-based one once it has dispatched, the wrapping one once the  *)
(* downstream handler has answered.                                        *)
C3_HandleReturns ==
    \A c \in Callers :
        (calls[c].pc \in {"dispatched", "downstream"}) ~> (calls[c].pc = "returned")

(* C3 witness: a Handle call has returned while the send it dispatched has *)
(* not yet got its frame onto the wire.                                    *)
C3_Witness ==
    \E c \in Callers :
        /\ calls[c].pc = "returned"
        /\ \E s \in SendsOf(c) : sends[s].st = "writing" /\ sends[s].off > 0

(* C4: what Handle returns does not depend on the Write: nil from the      *)
(* option-based handler, the downstream handler's answer from the wrapping *)
(* one; a failed Write is reported to the fallback logger, and only there. *)
C4_WriteFailureNotPropagated ==
    /\ \A c \in Callers :
          calls[c].pc = "returned" =>
              calls[c].ret = IF RootVariant = "opt" THEN "nil" ELSE calls[c].dsRes
    /\ writeErrs = { s \in 1..Len(sends) : sends[s].st = "failed" }

(* C4 witness: a call returned after the Write of its send had failed.     *)
C4_Witness ==
    \E c \in Callers :
        /\ calls[c].pc = "returned"
        /\ \E s \in SendsOf(c) : sends[s].st = "failed" /\ s \in writeErrs

(* The custom lines of a frame: those between the msg line and the app line *)
CustomLines(frame) == SubSeq(frame, 4, Len(frame) - 7)

(* The value of a frame's msg line *)
MsgOf(frame) == frame[3].v

Built(s) == sends[s].frame # <<>>

(* One key=value line per attribute given on the handler's derivation path *)
PathLines(h) ==
    [i \in 1..Len(handlers[h].path) |->
        LineTok(handlers[h].path[i].a.key, <<handlers[h].path[i].a.val>>)]

(* The lines of the attributes the call itself brings: those of its        *)
(* context and of the record                                               *)
OwnLines(s) ==
    LET as == sends[s].entry.attrs
    IN processCustomFields(SubSeq(as, Len(handlers[sends[s].h].attrs) + 1, Len(as)), <<>>)

(* Every attribute on the handler's derivation path is a string, has a key *)
(* of its own, and was given while no group was open                       *)
PlainPath(h) ==
    LET pth == handlers[h].path
    IN /\ \A i \in 1..Len(pth) : pth[i].a.kind = "string" /\ ~pth[i].open
       /\ \A i, j \in 1..Len(pth) : pth[i].a.key = pth[j].a.key => i = j

ErrorMessages(rec) == { ErrorsOf(rec.attrs)[i] : i \in 1..Len(ErrorsOf(rec.attrs)) }

(* C6: the frame forwarded for an Error-level record carrying an error     *)
(* under err or error has that error's message as msg, not the record's    *)
(* own text, in both handlers.                                             *)
C6_ErrorMessageForwarded ==
    \A s \in 1..Len(sends) :
        (Built(s) /\ sends[s].rec.level = LevelError
                  /\ ErrorMessages(sends[s].rec) # {}) =>
            /\ MsgOf(sends[s].frame) # <<sends[s].rec.msg>>
            /\ \E m \in ErrorMessages(sends[s].rec) : MsgOf(sends[s].frame) = <<m>>

(* C7: the wrapping handler dispatches no send for a record whose level is *)
(* not in its allow-list, so no frame of such a record reaches the wire.   *)
C7_FilteredLevelNotSent ==
    /\ \A s \in 1..Len(sends) :
          handlers[sends[s].h].variant = "wrap" =>
              sends[s].rec.level \in handlers[sends[s].h].levels
    /\ \A c \in Callers :
          (/\ calls[c].pc \in {"dispatched", "downstream"}
           /\ handlers[calls[c].h].variant = "wrap"
           /\ calls[c].rec.level \notin handlers[calls[c].h].levels) =>
              SendsOf(c) = {}

(* C7 witness: the wrapping Handle has got as far as the downstream        *)
(* handler with a record whose level the allow-list lacks.                 *)
C7_Witness ==
    \E c \in Callers :
        /\ calls[c].pc = "downstream"
        /\ handlers[calls[c].h].variant = "wrap"
        /\ calls[c].rec.level \notin handlers[calls[c].h].levels
        /\ sends = <<>>

(* C8: the wrapping Handle calls the downstream handler exactly once, with *)
(* the record, before it returns, whatever the level and the allow-list.   *)
C8_DownstreamCalledOnce ==
    \A c \in Callers :
        /\ (calls[c].pc = "dispatched" /\ handlers[calls[c].h].variant = "wrap") =>
              calls[c].ds = 0
        /\ calls[c].pc = "downstream" =>
              calls[c].ds = 1 /\ calls[c].dsRec = calls[c].rec
        /\ (calls[c].pc = "returned" /\ RootVariant = "wrap") => calls[c].ds = 1

(* C8 witness: a call of the wrapping Handle has returned, the downstream  *)
(* handler called once, although the Write of its send failed.             *)
C8_Witness ==
    \E c \in Callers :
        /\ calls[c].pc = "returned" /\ RootVariant = "wrap"
        /\ calls[c].ds = 1
        /\ \E s \in SendsOf(c) : sends[s].st = "failed"

(* The minimum level configured for a handler: the Option's Level, Debug   *)
(* when unset; for the wrapping handler, that of the handler it wraps      *)
ConfiguredMin(h) ==
    IF handlers[h].variant = "opt"
    THEN IF handlers[h].cfg.set THEN handlers[h].cfg.lv ELSE LevelDebug
    ELSE handlers[h].dsMin

C10_UnknownProtocolFailsWithoutDial ==
    /\ \A h \in 1..Len(handlers) :
          handlers[h].proto \notin {"tcp", "udp"} =>
              handlers[h].isNil /\ dials = <<>> /\ conns = <<>>
    /\ \A d \in 1..Len(dials) : dials[d].proto \in {"tcp", "udp"}

(* C10 witness: the constructor was called with sctp; it returned nil and  *)
(* reported the failure, and nothing was dialled.                          *)
C10_Witness ==
    /\ Len(handlers) = 1
    /\ handlers[1].proto = "sctp" /\ handlers[1].isNil
    /\ dials = <<>>
    /\ connErrs = 1

(* The value of a frame's tsrc line and the frame's lvl line *)
TsrcOf(frame) == frame[Len(frame) - 5].v
LvlLineOf(frame) == frame[Len(frame) - 4]

(* The lowercase name of a named level, warning shortened to warn *)
LowercaseName(l) ==
    CASE l = LevelDebug -> "debug"
      [] l = LevelInfo -> "info"
      [] l = LevelWarn -> "warn"
      [] l = LevelError -> "error"

(* C11: the lvl field of a frame is warn for a record at the warning level *)
(* and the lowercase name of the level for debug, info and error.          *)
C11_LevelLowercase ==
    \A s \in 1..Len(sends) :
        (Built(s) /\ sends[s].rec.level \in {LevelDebug, LevelInfo, LevelWarn, LevelError}) =>
            LvlLineOf(sends[s].frame) = LineTok("lvl", <<LowercaseName(sends[s].rec.level)>>)

(* The keys of a sequence of wire tokens *)
KeysOf(toks) == [i \in 1..Len(toks) |-> toks[i].k]

(* A wire token is one key=value line ended by a single newline: its value *)
(* holds no newline of its own                                             *)
OneLine(tok) == tok.t = "line" /\ \A i \in 1..Len(tok.v) : tok.v[i] # "\n"

(* C12: every frame starts with 0x06 0x03, holds msg, the custom lines,    *)
(* app, tsrc, lvl, ip, pid, src in that order, each exactly one key=value  *)
(* line, and ends with its only blank line.                                *)
C12_FrameLayout ==
    \A s \in 1..Len(sends) :
        Built(s) =>
            LET f == sends[s].frame
                n == Len(f)
            IN /\ n >= 10
               /\ SubSeq(f, 1, 2) = <<ByteTok("06"), ByteTok("03")>>
               /\ f[3].k = "msg"
               /\ KeysOf(SubSeq(f, n - 6, n - 1)) =
                      <<"app", "tsrc", "lvl", "ip", "pid", "src">>
               /\ \A i \in 3..(n - 1) : OneLine(f[i])
               /\ f[n] = NewlineTok

(* C13: the tsrc field is the instant of the send as year, month, day,     *)
(* time of day, a dot and the milliseconds.                                *)
C13_TsrcYearMonthDay ==
    \A s \in 1..Len(sends) :
        Built(s) =>
            SubSeq(TsrcOf(sends[s].frame), 1, 6) =
                <<sends[s].t.yy, sends[s].t.mo, sends[s].t.dd, sends[s].t.hms, ".",
                  sends[s].t.ms>>

(* C17: the wrapping Handle dispatches exactly one frame for every record  *)
(* whose level is in the allow-list, whatever the record's attributes.     *)
C17_OneFramePerAllowedRecord ==
    \A c \in Callers :
        (/\ calls[c].pc \in {"dispatched", "downstream"}
         /\ handlers[calls[c].h].variant = "wrap"
         /\ calls[c].rec.level \in handlers[calls[c].h].levels) =>
            Cardinality(SendsOf(c)) = 1

(* One key=value line per string-valued attribute, in attribute order *)
StringLines(attrs) ==
    LET strs == SelectSeq(attrs, LAMBDA a : a.kind = "string")
    IN [i \in 1..Len(strs) |-> LineTok(strs[i].key, <<strs[i].val>>)]

(* C20: the custom lines of a frame of the option-based handler are the    *)
(* string-valued attributes of the record it encodes, one line each in     *)
(* attribute order; any other attribute is left out, and the send goes on: *)
(* it fails only on a broken connection.                                   *)
C20_OnlyStringAttrsWritten ==
    \A s \in 1..Len(sends) :
        (Built(s) /\ RootVariant = "opt") =>
            /\ CustomLines(sends[s].frame) = StringLines(sends[s].entry.attrs)
            /\ sends[s].st = "failed" => conns[sends[s].conn].broken

(* C20 witness: the frame of a record carrying a string, a number and a    *)
(* boolean is on the wire with the string's line only.                     *)
C20_Witness ==
    \E s \in 1..Len(sends) :
        /\ RootVariant = "opt" /\ sends[s].st = "done"
        /\ sends[s].entry.attrs =
               <<StrAttr("u", "x"), IntAttr("n", "7"), BoolAttr("ok", "true")>>
        /\ CustomLines(sends[s].frame) = <<LineTok("u", <<"x">>)>>

(* C16: every handler value that compares unequal to nil has a connection, *)
(* so no Handle call panics; the only panic is the option-based            *)
(* constructor's, on a missing connection, before any handler exists.      *)
C16_HeldHandlersHaveConnection ==
    /\ \A h \in 1..Len(handlers) :
          handlers[h].held =>
              ~handlers[h].isNil /\ handlers[h].conn \in 1..Len(conns)
    /\ \A c \in Callers : calls[c].pc # "panicked"
    /\ panicked => handlers = <<>>

(* What holds of the sends in every state: a send makes one Write attempt, *)
(* on the connection its handler was constructed with                      *)
OneAttemptEach ==
    \A s \in 1..Len(sends) :
        /\ sends[s].tries <= 1
        /\ sends[s].tries = 1 <=> sends[s].st \in {"writing", "done", "failed"}
        /\ sends[s].conn = handlers[sends[s].h].conn

(* What holds of every step: no handler's connection is replaced, a send   *)
(* whose Write failed does nothing more and its connection's wire gets     *)
(* nothing more of it, and once a send of a handler has failed no          *)
(* unfinished send of that handler completes                               *)
NoSecondChance ==
    /\ \A h \in 1..Len(handlers) : handlers'[h].conn = handlers[h].conn
    /\ \A s \in 1..Len(sends) :
          sends[s].st = "failed" =>
              /\ sends'[s] = sends[s]
              /\ { i \in 1..Len(conns'[sends[s].conn].wire) :
                     conns'[sends[s].conn].wire[i].s = s } = WirePlaces(s)
    /\ \A s1, s2 \in 1..Len(sends) :
          (/\ sends[s1].st = "failed"
           /\ sends[s1].h = sends[s2].h
           /\ sends[s2].st # "done") => sends'[s2].st # "done"
    /\ \A s2 \in (Len(sends) + 1)..Len(sends') : sends'[s2].st # "done"

(* C18: there is no retry and no reconnect: one Write attempt per send, a  *)
(* failed frame is never written again, a handler keeps its connection,    *)
(* and after a failure on it every later send of the handler fails too.    *)
C18_NoRetryNoReconnect == []OneAttemptEach /\ [][NoSecondChance]_vars

(* C18 witness: two sends of one handler, from one call after the other,   *)
(* have each made their one attempt on the broken connection and failed.   *)
C18_Witness ==
    \E s1, s2 \in 1..Len(sends) :
        /\ sends[s1].h = sends[s2].h /\ sends[s1].no < sends[s2].no
        /\ sends[s1].st = "failed" /\ sends[s2].st = "failed"
        /\ sends[s1].tries = 1 /\ sends[s2].tries = 1
        /\ conns[handlers[sends[s1].h].conn].broken

(* C19: nothing orders the sends: a send whose frame is built enters its   *)
(* Write as soon as the connection's write lock is free, whatever has      *)
(* become of the sends dispatched before it, so the order of the frames on *)
(* the wire need not be the order of the Handle calls.                     *)
C19_SendsRaceForWrite ==
    \A s \in 1..Len(sends) :
        (Ready /\ sends[s].st = "built" /\ conns[sends[s].conn].lock = 0) =>
            ENABLED ConnWriteBegin(s)

(* C19 witness: one caller logged two records through one handler, one     *)
(* call after the other, and the second record's frame lies on the wire    *)
(* before the first's.                                                     *)
C19_Witness ==
    \E s1, s2 \in 1..Len(sends) :
        /\ sends[s1].caller = sends[s2].caller
        /\ sends[s1].h = sends[s2].h
        /\ sends[s1].no < sends[s2].no
        /\ sends[s1].st = "done" /\ sends[s2].st = "done"
        /\ Max(WirePlaces(s2)) < Min(WirePlaces(s1))

(* A derivation step leaves every existing handler's groups and attributes *)
(* as they were, and gives the new handler its parent's groups, followed   *)
(* by the new name if it is a WithGroup                                    *)
DerivationLeavesOthers ==
    /\ \A h \in 1..Len(handlers) :
          /\ handlers'[h].groups = handlers[h].groups
          /\ handlers'[h].attrs = handlers[h].attrs
    /\ Len(handlers') > Len(handlers) =>
          LET d == handlers'[Len(handlers')]
          IN d.parent # 0 =>
                SubSeq(d.groups, 1, Len(handlers[d.parent].groups)) =
                    handlers[d.parent].groups

(* C14: in the option-based handler no derivation changes the group stack  *)
(* or the attributes of a handler that exists already, be it the parent, a *)
(* sibling or any other.                                                   *)
C14_DerivationsDoNotInterfere == [][DerivationLeavesOthers]_vars

(* C15: whatever the interleaving of Handle calls on one option-based      *)
(* handler, the record each call's converter builds carries the handler's  *)
(* attributes, then that call's own context attributes, then the log       *)
(* call's.                                                                 *)
C15_ConverterGetsOwnContextAttrs ==
    \A c \in Callers :
        (calls[c].pc = "dispatched" /\ handlers[calls[c].h].variant = "opt") =>
            \A s \in SendsOf(c) :
                sends[s].entry.attrs =
                    handlers[calls[c].h].attrs \o calls[c].fc \o calls[c].rec.attrs

====
